---- MODULE Spec2Model ----
(***************************************************************************)
(* Model of the Ridibooks metadata worker (src/worker.py): one Worker      *)
(* thread per candidate URL runs load_details and publishes at most one    *)
(* Metadata record on the shared result queue.                             *)
(*                                                                         *)
(* Text is modelled as a sequence of tokens (a token is one character or   *)
(* one fixed literal such as the path marker), so that slicing, splitting  *)
(* and regular-expression matching are computed the way the code does.     *)
(***************************************************************************)
EXTENDS Integers, Sequences, FiniteSets, TLC

VARIABLES
    url,            \* url[w]: self.url of worker w
    root,           \* root[w]: the document _get_book_page returned to w (by name)
    pc,             \* pc[w]: position of worker w inside run()/load_details
    loc,            \* loc[w]: locals of load_details (ridibooks_id, isbn, cover_url, title)
    mi,             \* mi[w]: the Metadata object under assembly
    calls,          \* calls[w]: collaborator calls made by w, in order
    log,            \* log[w]: entries w wrote to self.log
    exc,            \* exc[w]: exception in flight / caught in w ("none" if none)
    outcome,        \* outcome[w]: "running", "returned" or "raised" (of run())
    result_queue,   \* the shared Queue of published records
    isbn_cache,     \* plugin.cache_isbn_to_identifier store
    cover_cache,    \* plugin.cache_identifier_to_cover_url store
    arg,            \* input of the helper under study (helper specifications)
    prefs,          \* cfg.plugin_prefs[STORE_NAME][KEY_GENRE_MAPPINGS]
    ret             \* result of the helper under study

vars == <<url, root, pc, loc, mi, calls, log, exc, outcome,
          result_queue, isbn_cache, cover_cache, arg, prefs, ret>>

pipelineVars == <<url, root, pc, loc, mi, calls, log, exc, outcome,
                  result_queue, isbn_cache, cover_cache>>

(***************************************************************************)
(* Bounds                                                                  *)
(***************************************************************************)
NumWorkers == 2
MaxUrlLen == 5
MaxTitleLen == 5
MaxRestLen == 5
MaxTags == 3
MaxMapped == 2

Workers == 1..NumWorkers

SeqsUpTo(S, n) == UNION {[1..k -> S] : k \in 0..n}

(***************************************************************************)
(* Python text primitives                                                  *)
(***************************************************************************)
\* s[i:i+len(sep)] == sep
MatchesAt(s, sep, i) ==
    /\ i >= 1
    /\ i + Len(sep) - 1 <= Len(s)
    /\ SubSeq(s, i, i + Len(sep) - 1) = sep

\* str.find, 1-based; 0 when sep does not occur
Find(s, sep) ==
    IF \E i \in 1..Len(s) : MatchesAt(s, sep, i)
    THEN CHOOSE i \in 1..Len(s) :
            /\ MatchesAt(s, sep, i)
            /\ \A j \in 1..(i-1) : ~MatchesAt(s, sep, j)
    ELSE 0

\* str.split(sep): the pieces between successive non-overlapping occurrences
RECURSIVE Split(_, _)
Split(s, sep) ==
    LET i == Find(s, sep) IN
    IF i = 0 THEN <<s>>
    ELSE <<SubSeq(s, 1, i - 1)>> \o Split(SubSeq(s, i + Len(sep), Len(s)), sep)

IsSpace(c) == c = " "

\* str.strip()
RECURSIVE Strip(_)
Strip(s) ==
    IF s = <<>> THEN s
    ELSE IF IsSpace(s[1]) THEN Strip(Tail(s))
    ELSE IF IsSpace(s[Len(s)]) THEN Strip(SubSeq(s, 1, Len(s) - 1))
    ELSE s

Digits == <<"0", "1", "2", "3", "4", "5", "6", "7", "8", "9">>

IsDigit(c) == \E i \in 1..Len(Digits) : Digits[i] = c

DigitVal(c) == (CHOOSE i \in 1..Len(Digits) : Digits[i] = c) - 1

RECURSIVE DecimalVal(_)
DecimalVal(s) ==
    IF s = <<>> THEN 0
    ELSE DecimalVal(SubSeq(s, 1, Len(s) - 1)) * Len(Digits) + DigitVal(s[Len(s)])

AllDigits(s) == \A i \in 1..Len(s) : IsDigit(s[i])

\* int(text): surrounding whitespace is ignored, then one or more digits
ParseInt(s) ==
    LET t == Strip(s) IN
    IF t # <<>> /\ AllDigits(t)
    THEN [ok |-> TRUE, val |-> DecimalVal(t)]
    ELSE [ok |-> FALSE, val |-> 0]

Pending == [st |-> "pending", val |-> <<>>]
Raised(e) == [st |-> "raised", val |-> e]
Returned(v) == [st |-> "returned", val |-> v]

\* Python slice s[a:b] (0-based, end-exclusive, clamped to the text)
Slice(s, a, b) ==
    LET hi == IF b < Len(s) THEN b ELSE Len(s) IN
    IF a >= hi THEN <<>> ELSE SubSeq(s, a + 1, hi)

(***************************************************************************)
(* load_details: identifier derivation (worker.py 122-124)                 *)
(***************************************************************************)
BooksMarker == <<"/books/">>
QueryMarker == <<"?", "_">>

\* x = url.split("/books/"); y = x[1].split("?_"); ridibooks_id = y[0]
RidibooksId(u) ==
    LET x == Split(u, BooksMarker) IN
    IF Len(x) < 2 THEN Raised("IndexError")
    ELSE Returned(Split(x[2], QueryMarker)[1])

\* "/books/" occurs in the url
HasMarker(u) == Find(u, BooksMarker) # 0

(***************************************************************************)
(* load_details._format_date (worker.py 73-77)                             *)
(***************************************************************************)
IsLeap(y) == (y % 4 = 0 /\ y % 100 # 0) \/ y % 400 = 0

DaysInMonth(y, m) ==
    IF m = 2 THEN (IF IsLeap(y) THEN 29 ELSE 28)
    ELSE IF m \in {4, 6, 9, 11} THEN 30 ELSE 31

\* datetime.datetime(year, month, day, tzinfo=utc_tz) accepts exactly these
ValidDate(y, m, d) ==
    /\ y >= 1 /\ y <= 9999
    /\ m >= 1 /\ m <= 12
    /\ d >= 1 /\ d <= DaysInMonth(y, m)

FormatDate(date_text) ==
    LET year  == ParseInt(Slice(date_text, 0, 4))
        month == ParseInt(Slice(date_text, 4, 6))
        day   == ParseInt(Slice(date_text, 6, Len(date_text)))
    IN  IF ~year.ok \/ ~month.ok \/ ~day.ok THEN Raised("ValueError")
        ELSE IF ~ValidDate(year.val, month.val, day.val) THEN Raised("ValueError")
        ELSE Returned([year |-> year.val, month |-> month.val, day |-> day.val,
                       tz |-> "utc"])

(***************************************************************************)
(* load_details: series detection (worker.py 155-162)                      *)
(***************************************************************************)
Gwon == "GWON"      \* the volume marker character
Hwa  == "HWA"       \* the episode marker character

EndsWith(s, c) == s # <<>> /\ s[Len(s)] = c

\* \s*(\d+)<marker> matched at offset k (0-based) of the title: the blanks
\* end at i, the digits at j, the marker is at j+1
RestMatches(title, k, i, j, marker) ==
    /\ k <= i /\ i < j /\ j < Len(title)
    /\ \A n \in (k+1)..i : IsSpace(title[n])
    /\ \A n \in (i+1)..j : IsDigit(title[n])
    /\ title[j + 1] = marker

NoSeries == [matched |-> FALSE, series |-> <<>>, series_index |-> 0]

\* re.search(u'(.*)\s*(\d+)<marker>', title): the search starts at offset 0,
\* (.*) is greedy and gives back one character at a time, \s* and (\d+) are
\* greedy too.
SeriesSearch(title, marker) ==
    LET N  == Len(title)
        Ks == {k \in 0..N : \E i \in k..N, j \in k..N : RestMatches(title, k, i, j, marker)}
    IN  IF Ks = {} THEN NoSeries
        ELSE LET k == CHOOSE a \in Ks : \A b \in Ks : b <= a
                 i == CHOOSE a \in k..N : \E j \in k..N :
                         /\ RestMatches(title, k, a, j, marker)
                         /\ \A b \in k..N : (\E j2 \in k..N : RestMatches(title, k, b, j2, marker)) => b <= a
                 j == CHOOSE a \in k..N :
                         /\ RestMatches(title, k, i, a, marker)
                         /\ \A b \in k..N : RestMatches(title, k, i, b, marker) => b <= a
             IN  [matched |-> TRUE,
                  series |-> SubSeq(title, 1, k),
                  series_index |-> DecimalVal(SubSeq(title, i + 1, j))]

SeriesOf(title) ==
    IF EndsWith(title, Gwon) THEN SeriesSearch(title, Gwon)
    ELSE SeriesSearch(title, Hwa)

(***************************************************************************)
(* Worker._convert_genres_to_calibre_tags (worker.py 215-229)              *)
(***************************************************************************)
\* str.lower() on the tag vocabulary of the model
Lower(t) ==
    CASE t = "Fantasy" -> "fantasy"
      [] t = "SciFi" -> "scifi"
      [] t = "Fantasy & SF" -> "fantasy & sf"
      [] OTHER -> t

InSeq(x, s) == \E i \in 1..Len(s) : s[i] = x

\* for tag in tags: if tag not in tags_to_add: tags_to_add.append(tag)
RECURSIVE AppendNew(_, _)
AppendNew(out, tags) ==
    IF tags = <<>> THEN out
    ELSE AppendNew(IF InSeq(tags[1], out) THEN out ELSE Append(out, tags[1]), Tail(tags))

\* dict((k.lower(), v) for (k, v) in calibre_tag_lookup.items())
CalibreTagMap(lookup) ==
    [k \in {Lower(x) : x \in DOMAIN lookup} |->
        lookup[CHOOSE x \in DOMAIN lookup : Lower(x) = k]]

\* `if tags:` is false for None (no key) and for an empty list
Truthy(tag_map, key) == key \in DOMAIN tag_map /\ tag_map[key] # <<>>

RECURSIVE ConvertLoop(_, _, _)
ConvertLoop(tags_to_add, genre_tags, tag_map) ==
    IF genre_tags = <<>> THEN tags_to_add
    ELSE LET genre_tag == genre_tags[1]
             key == Lower(genre_tag)
         IN  ConvertLoop(
                 IF Truthy(tag_map, key)
                 THEN AppendNew(tags_to_add, tag_map[key])
                 ELSE AppendNew(tags_to_add, <<genre_tag>>),
                 Tail(genre_tags), tag_map)

ConvertGenresToCalibreTags(genre_tags, lookup) ==
    ConvertLoop(<<>>, genre_tags, CalibreTagMap(lookup))

(***************************************************************************)
(* float() and load_details._normalize_score (worker.py 79-80, 145)        *)
(* A float is held in hundredths; the rating texts of the model have at    *)
(* most one fractional digit, so dividing by 5 is exact.                   *)
(***************************************************************************)
ScoreScale == 5

ParseFloat(s) ==
    LET t == Strip(s)
        parts == Split(t, <<".">>)
        whole == parts[1]
        frac  == IF Len(parts) = 2 THEN parts[2] ELSE <<>>
    IN  IF /\ Len(parts) <= 2
           /\ AllDigits(whole) /\ AllDigits(frac)
           /\ Len(whole) + Len(frac) >= 1
           /\ Len(frac) <= 2
        THEN [ok |-> TRUE,
              val |-> DecimalVal(whole) * 100
                      + (IF Len(frac) = 1 THEN DecimalVal(frac) * 10 ELSE DecimalVal(frac))]
        ELSE [ok |-> FALSE, val |-> 0]

\* return float(score)/5.0
NormalizeScore(score) ==
    LET f == ParseFloat(score) IN
    IF f.ok THEN Returned(f.val \div ScoreScale) ELSE Raised("ValueError")

(***************************************************************************)
(* load_details: text helpers (worker.py 64-71)                            *)
(***************************************************************************)
Quote == "\""

\* calibre's unescape on the entities of the model
Unescape(s) == [i \in 1..Len(s) |-> IF s[i] = "&amp;" THEN "&" ELSE s[i]]

\* re.sub('^"(.*)"$', '\\1', unescape(str))
FormatItem(s) ==
    LET t == Unescape(s) IN
    IF Len(t) >= 2 /\ t[1] = Quote /\ t[Len(t)] = Quote
    THEN SubSeq(t, 2, Len(t) - 1)
    ELSE t

\* [_.strip() for _ in _format_item(str).split(',')]
FormatList(s) ==
    LET parts == Split(FormatItem(s), <<",">>) IN
    [i \in 1..Len(parts) |-> Strip(parts[i])]

\* the xpath filter starts-with(@property, "og") or starts-with(@property, "books")
OgOrBooks(property) ==
    property \in {"og:title", "og:image", "og:type", "books:isbn",
                  "books:rating:normalized_value"}

MetaOf(p) == SelectSeq(p.meta, LAMBDA m : OgOrBooks(m.property))

\* [_.get('content') for _ in node if _.get('property') == property][0]
FindMeta(meta, property) ==
    LET hits == SelectSeq(meta, LAMBDA m : m.property = property) IN
    IF hits = <<>> THEN Raised("IndexError") ELSE Returned(hits[1].content)

(***************************************************************************)
(* The Metadata object                                                     *)
(***************************************************************************)
AllFields == {"title", "authors", "identifier", "cover_url", "has_cover",
              "publisher", "pubdate", "comments", "rating", "tags",
              "language", "source_relevance"}

\* a Metadata object none of whose attributes is assigned yet; `assigned'
\* names the attributes load_details has assigned so far
NoMi == [assigned |-> {}, title |-> <<>>, authors |-> <<>>, identifier |-> <<>>,
         cover_url |-> <<>>, has_cover |-> FALSE, publisher |-> <<>>,
         pubdate |-> [year |-> 0, month |-> 0, day |-> 0, tz |-> "none"],
         comments |-> <<>>, rating |-> 0, tags |-> <<>>,
         series |-> <<>>, series_index |-> 0, has_series |-> FALSE,
         language |-> "", source_relevance |-> 0, cleaned |-> FALSE]

NoLoc == [ridibooks_id |-> <<>>, isbn |-> <<>>, cover_url |-> <<>>, title |-> <<>>]

\* self.relevance, given to the constructor
Relevance(w) == w

(***************************************************************************)
(* load_details, lines 109-145: everything up to the rating                *)
(***************************************************************************)
RatingOf_Normalized(content) == NormalizeScore(content)

\* mi.rating = float(_find_meta(meta, 'books:rating:normalized_value'))
RatingOf(content) ==
    LET f == ParseFloat(content) IN
    IF f.ok THEN Returned(f.val) ELSE Raised("ValueError")

\* ld = [_ for _ in ld_json if '"@type": "Book"' in _][0]; json.loads(ld)
BookInfo(p) ==
    IF p.ld.kind = "none" THEN Raised("IndexError")
    ELSE IF p.ld.kind = "malformed" THEN Raised("ValueError")
    ELSE Returned(p.ld.info)

\* book_info[key]['name'] / book_info[key]
Lookup(info, key) ==
    IF key \in info.keys THEN Returned(info[key]) ELSE Raised("KeyError")

Authors(info) ==
    LET own == FormatList(info.author)
        tr  == FormatList(info.translator)
    IN  IF "translator" \in info.keys
        THEN own \o [i \in 1..Len(tr) |-> tr[i] \o <<"(tr)">>]
        ELSE own

ExtractFields(u, p) ==
    LET meta   == MetaOf(p)
        book   == BookInfo(p)
        id     == RidibooksId(u)
        isbn   == FindMeta(meta, "books:isbn")
        cover  == FindMeta(meta, "og:image")
        title  == FindMeta(meta, "og:title")
        info   == book.val
        rating == FindMeta(meta, "books:rating:normalized_value")
    IN  IF book.st = "raised" THEN book
        ELSE IF id.st = "raised" THEN id
        ELSE IF isbn.st = "raised" THEN isbn
        ELSE IF cover.st = "raised" THEN cover
        ELSE IF title.st = "raised" THEN title
        ELSE IF Lookup(info, "author").st = "raised" THEN Lookup(info, "author")
        ELSE IF Lookup(info, "publisher").st = "raised" THEN Lookup(info, "publisher")
        ELSE IF Lookup(info, "datePublished").st = "raised" THEN Lookup(info, "datePublished")
        ELSE IF FormatDate(info.datePublished).st = "raised" THEN FormatDate(info.datePublished)
        ELSE IF Lookup(info, "description").st = "raised" THEN Lookup(info, "description")
        ELSE IF rating.st = "raised" THEN rating
        ELSE IF RatingOf(rating.val).st = "raised" THEN RatingOf(rating.val)
        ELSE Returned(
               [loc |-> [ridibooks_id |-> id.val, isbn |-> isbn.val,
                         cover_url |-> cover.val, title |-> title.val],
                mi  |-> [NoMi EXCEPT
                           !.assigned = {"title", "authors", "identifier", "cover_url",
                                         "has_cover", "publisher", "pubdate",
                                         "comments", "rating"},
                           !.title = title.val,
                           !.authors = Authors(info),
                           !.identifier = id.val,
                           !.cover_url = cover.val,
                           !.has_cover = (cover.val # <<>>),
                           !.publisher = FormatItem(info.publisher),
                           !.pubdate = FormatDate(info.datePublished).val,
                           !.comments = FormatItem(info.description),
                           !.rating = RatingOf(rating.val).val]])

(***************************************************************************)
(* Worker.parse_tags (worker.py 171-213)                                   *)
(***************************************************************************)
KeywordSep == <<Quote, ",", " ", Quote>>

\* keywords[1:len(keywords)-1].split("\", \"")
KeywordTags(info) ==
    IF "keywords" \in info.keys
    THEN Split(Slice(info.keywords, 1, Len(info.keywords) - 1), KeywordSep)
    ELSE <<>>

IsLink(child) == child.tag = "a"
IsArrow(child) == child.tag = "span" /\ child.class = "icon-arrow_2_right"

\* genre_node.xpath('a[1]'): the first <a> child
Links(container) == SelectSeq(container, IsLink)

\* span[@class="icon-arrow_2_right"]/following-sibling::a[1]: for each arrow
\* the first <a> after it, as a node set in document order
SubGenrePositions(container) ==
    {n \in 1..Len(container) :
        /\ IsLink(container[n])
        /\ \E a \in 1..(n - 1) :
              /\ IsArrow(container[a])
              /\ \A b \in (a + 1)..(n - 1) : ~IsLink(container[b])}

RECURSIVE TextsAt(_, _, _)
TextsAt(container, positions, n) ==
    IF n > Len(container) THEN <<>>
    ELSE (IF n \in positions THEN <<Strip(container[n].text)>> ELSE <<>>)
         \o TextsAt(container, positions, n + 1)

SubGenres(container) == TextsAt(container, SubGenrePositions(container), 1)

\* the loop over genres_node; raises IndexError when the first container has
\* no link
RECURSIVE GenreLoop(_, _, _)
GenreLoop(nodes, genre_tags, added_main_genre) ==
    IF nodes = <<>> THEN Returned(genre_tags)
    ELSE IF ~added_main_genre /\ Links(nodes[1]) = <<>> THEN Raised("IndexError")
    ELSE GenreLoop(Tail(nodes),
                   (IF added_main_genre THEN genre_tags
                    ELSE Append(genre_tags, Links(nodes[1])[1].text))
                   \o SubGenres(nodes[1]),
                   TRUE)

\* a tag is a text; the mapper compares whole tags, so a tag made of one
\* token is handed over as that token
TagName(text) == IF Len(text) = 1 THEN text[1] ELSE "other"

ParseTags(p, lookup) ==
    LET book == BookInfo(p)
        kw == KeywordTags(book.val)
        genres == GenreLoop(p.genres, <<>>, FALSE)
    IN  IF book.st = "raised" THEN book
        ELSE IF genres.st = "raised" THEN genres
        ELSE LET all_tags == kw \o genres.val IN
             Returned(ConvertGenresToCalibreTags(
                         [i \in 1..Len(all_tags) |-> TagName(all_tags[i])], lookup))

(***************************************************************************)
(* Pages the remote site may serve, and the URLs of the workers            *)
(***************************************************************************)
A(text) == [tag |-> "a", class |-> "", text |-> text]
Arrow == [tag |-> "span", class |-> "icon-arrow_2_right", text |-> <<>>]

IdText(w) == <<ToString(w)>>

GoodUrl(w) == <<"h", "/books/">> \o IdText(w) \o <<"?", "_", "s">>

GoodInfo ==
    [keys |-> {"author", "translator", "publisher", "description",
               "datePublished", "keywords"},
     author |-> <<Quote, "A", ",", " ", "B", Quote>>,
     translator |-> <<"T">>,
     publisher |-> <<"P", "&amp;", "Q">>,
     description |-> <<"D">>,
     datePublished |-> <<"2", "0", "2", "0", "0", "1", "1", "5">>,
     keywords |-> <<Quote, "Fantasy", Quote, ",", " ", Quote, "fantasy", Quote>>]

GoodPage ==
    [meta |-> << [property |-> "description", content |-> <<"D">>],
                 [property |-> "og:title", content |-> <<"a", " ", "1", "2", Gwon>>],
                 [property |-> "og:image", content |-> <<"c">>],
                 [property |-> "books:isbn", content |-> <<"i">>],
                 [property |-> "books:rating:normalized_value",
                  content |-> <<"4", ".", "0">>],
                 [property |-> "og:title", content |-> <<"b">>] >>,
     ld |-> [kind |-> "book", info |-> GoodInfo],
     genres |-> << <<A(<<"Fantasy">>), Arrow, A(<<" ", "SciFi", " ">>)>> >>]

SetMeta(p, property, content) ==
    [p EXCEPT !.meta = [i \in 1..Len(p.meta) |->
        IF p.meta[i].property = property
        THEN [property |-> property, content |-> content] ELSE p.meta[i]]]

DropMeta(p, property) ==
    [p EXCEPT !.meta = SelectSeq(p.meta, LAMBDA m : m.property # property)]

NoMarkerUrl(w) == <<"h">> \o IdText(w)
EmptyIdUrl == <<"h", "/books/", "?", "_", "s">>

\* the URLs worker w may be constructed with
Urls(w) == {GoodUrl(w), NoMarkerUrl(w), EmptyIdUrl}

\* the documents of the model, by name
Document(name) ==
    CASE name = "good" -> GoodPage
      [] name = "empty_isbn" ->
            SetMeta(SetMeta(GoodPage, "books:isbn", <<>>),
                    "books:rating:normalized_value", <<"5">>)
      [] name = "empty_cover" ->
            SetMeta(SetMeta(GoodPage, "og:image", <<>>), "og:title", <<"a">>)
      [] name = "plain" ->
            [GoodPage EXCEPT !.genres = <<>>,
                             !.ld.info.keys = @ \ {"keywords", "translator"}]
      [] name = "no_book_block" -> [GoodPage EXCEPT !.ld.kind = "none"]
      [] name = "no_isbn_meta" -> DropMeta(GoodPage, "books:isbn")
      [] name = "bad_date" ->
            [GoodPage EXCEPT !.ld.info.datePublished =
                                <<"2", "0", "2", "0", "1", "3", "0", "1">>]
      [] name = "bad_rating" ->
            SetMeta(GoodPage, "books:rating:normalized_value", <<"x">>)
      [] name = "genre_without_link" -> [GoodPage EXCEPT !.genres = << <<Arrow>> >>]

\* the documents the site may answer a GET of u with
Pages(u) ==
    IF ~HasMarker(u) THEN {"good"}
    ELSE IF RidibooksId(u).val = <<>> THEN {"plain"}
    ELSE {"good", "empty_isbn", "empty_cover", "no_book_block", "no_isbn_meta",
          "bad_date", "bad_rating", "genre_without_link"}

DocumentNames ==
    {"good", "empty_isbn", "empty_cover", "plain", "no_book_block",
     "no_isbn_meta", "bad_date", "bad_rating", "genre_without_link"}

AllUrls == UNION {Urls(w) : w \in Workers}

\* root before _get_book_page has assigned it
NoRoot == "unbound"

\* the genre mapping in the preferences while the workers run
RunPrefs == [x \in {"fantasy"} |-> <<"Fantasy & SF">>]

(***************************************************************************)
(* Worker.run / load_details as a state machine                            *)
(***************************************************************************)
Init ==
    /\ url \in [Workers -> UNION {Urls(w) : w \in Workers}]
    /\ \A w \in Workers : url[w] \in Urls(w)
    /\ root = [w \in Workers |-> NoRoot]
    /\ pc = [w \in Workers |-> "post"]
    /\ loc = [w \in Workers |-> NoLoc]
    /\ mi = [w \in Workers |-> NoMi]
    /\ calls = [w \in Workers |-> <<>>]
    /\ log = [w \in Workers |-> <<>>]
    /\ exc = [w \in Workers |-> "none"]
    /\ outcome = [w \in Workers |-> "running"]
    /\ result_queue = <<>>
    /\ isbn_cache = <<>>
    /\ cover_cache = <<>>
    /\ arg = <<>>
    /\ prefs = RunPrefs
    /\ ret = Pending

\* dict[key] = value
Store(cache, key, value) ==
    [k \in DOMAIN cache \cup {key} |-> IF k = key THEN value ELSE cache[k]]

Caught_OnlyValueError(e) == e = "ValueError"

\* the bare `except:` of run() catches every exception
Caught(e) == TRUE

\* an exception e leaves load_details after the step has logged `entries`:
\* run()'s except clause (lines 59-60) logs the failure and run() returns
Raise(w, e, entries) ==
    /\ exc' = [exc EXCEPT ![w] = e]
    /\ pc' = [pc EXCEPT ![w] = "done"]
    /\ IF Caught(e)
       THEN /\ log' = [log EXCEPT ![w] = @ \o entries \o <<"get_details failed">>]
            /\ outcome' = [outcome EXCEPT ![w] = "returned"]
       ELSE /\ log' = [log EXCEPT ![w] = @ \o entries]
            /\ outcome' = [outcome EXCEPT ![w] = "raised"]

\* _get_book_page's own handler: log.exception(e), then `return root` with
\* root never assigned raises UnboundLocalError
FetchFailed(w) ==
    /\ Raise(w, "UnboundLocalError", <<"exception(e)">>)
    /\ UNCHANGED <<url, root, loc, mi, calls, result_queue,
                   isbn_cache, cover_cache, arg, prefs, ret>>

\* s.post(login) returns or raises; no timeout is passed, so the call ends
\* only when the remote site answers or the connection breaks
PostReturns(w) ==
    /\ pc[w] = "post"
    /\ \/ /\ pc' = [pc EXCEPT ![w] = "get"]
          /\ UNCHANGED <<url, root, loc, mi, calls, log, exc, outcome,
                         result_queue, isbn_cache, cover_cache, arg, prefs, ret>>
       \/ FetchFailed(w)

\* s.get(url) returns and lxml parses the body, or either raises
GetReturns(w) ==
    /\ pc[w] = "get"
    /\ \/ /\ \E p \in Pages(url[w]) : root' = [root EXCEPT ![w] = p]
          /\ pc' = [pc EXCEPT ![w] = "extract"]
          /\ UNCHANGED <<url, loc, mi, calls, log, exc, outcome,
                         result_queue, isbn_cache, cover_cache, arg, prefs, ret>>
       \/ FetchFailed(w)

\* load_details is a function of the url and the document: what lines
\* 109-145 and parse_tags give for each input of the model
Extracted == [u \in AllUrls, d \in DocumentNames |-> ExtractFields(u, Document(d))]
ParsedTags == [d \in DocumentNames |-> ParseTags(Document(d), RunPrefs)]

\* lines 109-145
Extract(w) ==
    /\ pc[w] = "extract"
    /\ LET r == Extracted[url[w], root[w]] IN
       IF r.st = "raised"
       THEN /\ Raise(w, r.val, <<>>)
            /\ UNCHANGED <<loc, mi>>
       ELSE /\ loc' = [loc EXCEPT ![w] = r.val.loc]
            /\ mi' = [mi EXCEPT ![w] = r.val.mi]
            /\ pc' = [pc EXCEPT ![w] = "cache_isbn"]
            /\ UNCHANGED <<exc, log, outcome>>
    /\ UNCHANGED <<url, root, calls, result_queue,
                   isbn_cache, cover_cache, arg, prefs, ret>>

\* if ridibooks_id: if isbn:
ShouldCacheIsbn(l) == l.ridibooks_id # <<>> /\ l.isbn # <<>>

ShouldCacheCover_NoIdCheck(l) == l.cover_url # <<>>

\* if ridibooks_id: if cover_url:
ShouldCacheCover(l) == l.ridibooks_id # <<>> /\ l.cover_url # <<>>

\* lines 147-149
CacheIsbn(w) ==
    /\ pc[w] = "cache_isbn"
    /\ IF ShouldCacheIsbn(loc[w])
       THEN /\ isbn_cache' = Store(isbn_cache, loc[w].isbn, loc[w].ridibooks_id)
            /\ calls' = [calls EXCEPT ![w] = Append(@, "cache_isbn_to_identifier")]
       ELSE UNCHANGED <<isbn_cache, calls>>
    /\ pc' = [pc EXCEPT ![w] = "cache_cover"]
    /\ UNCHANGED <<url, root, loc, mi, log, exc, outcome, result_queue,
                   cover_cache, arg, prefs, ret>>

\* lines 147, 150-151
CacheCover(w) ==
    /\ pc[w] = "cache_cover"
    /\ IF ShouldCacheCover(loc[w])
       THEN /\ cover_cache' = Store(cover_cache, loc[w].ridibooks_id, loc[w].cover_url)
            /\ calls' = [calls EXCEPT ![w] = Append(@, "cache_identifier_to_cover_url")]
       ELSE UNCHANGED <<cover_cache, calls>>
    /\ pc' = [pc EXCEPT ![w] = "tags"]
    /\ UNCHANGED <<url, root, loc, mi, log, exc, outcome, result_queue,
                   isbn_cache, arg, prefs, ret>>

\* lines 153-165: mi.tags = self.parse_tags(root), then the series, the
\* language and the relevance
TagsAndSeries(w) ==
    /\ pc[w] = "tags"
    /\ LET r == IF prefs = RunPrefs THEN ParsedTags[root[w]]
                ELSE ParseTags(Document(root[w]), prefs)
           series == SeriesOf(loc[w].title)
       IN  IF r.st = "raised"
           THEN /\ Raise(w, r.val, <<"Parsing tags">>)
                /\ UNCHANGED mi
           ELSE /\ mi' = [mi EXCEPT ![w].tags = r.val,
                                    ![w].has_series = series.matched,
                                    ![w].series = series.series,
                                    ![w].series_index = series.series_index,
                                    ![w].language = "Korean",
                                    ![w].source_relevance = Relevance(w),
                                    ![w].assigned = @ \cup {"tags", "language",
                                                           "source_relevance"}]
                /\ log' = [log EXCEPT ![w] = Append(@, "Parsing tags")]
                /\ pc' = [pc EXCEPT ![w] = "clean"]
                /\ UNCHANGED <<exc, outcome>>
    /\ UNCHANGED <<url, root, loc, calls, result_queue,
                   isbn_cache, cover_cache, arg, prefs, ret>>

\* line 167: self.plugin.clean_downloaded_metadata(mi)
Clean(w) ==
    /\ pc[w] = "clean"
    /\ calls' = [calls EXCEPT ![w] = Append(@, "clean_downloaded_metadata")]
    /\ mi' = [mi EXCEPT ![w].cleaned = TRUE]
    /\ pc' = [pc EXCEPT ![w] = "put"]
    /\ UNCHANGED <<url, root, loc, log, exc, outcome, result_queue,
                   isbn_cache, cover_cache, arg, prefs, ret>>

Enqueue_Replace(queue, w, record) == <<[by |-> w, rec |-> record]>>

\* Queue.put: appends under the queue's lock
Enqueue(queue, w, record) == Append(queue, [by |-> w, rec |-> record])

\* line 168, then load_details and run() return
Put(w) ==
    /\ pc[w] = "put"
    /\ result_queue' = Enqueue(result_queue, w, mi[w])
    /\ calls' = [calls EXCEPT ![w] = Append(@, "result_queue.put")]
    /\ pc' = [pc EXCEPT ![w] = "done"]
    /\ outcome' = [outcome EXCEPT ![w] = "returned"]
    /\ UNCHANGED <<url, root, loc, mi, log, exc, isbn_cache, cover_cache,
                   arg, prefs, ret>>

\* the steps a worker thread takes on its own
Local(w) ==
    \/ Extract(w)
    \/ CacheIsbn(w)
    \/ CacheCover(w)
    \/ TagsAndSeries(w)
    \/ Clean(w)
    \/ Put(w)

\* the steps that need the remote site
Network(w) == PostReturns(w) \/ GetReturns(w)

Next == \E w \in Workers : Local(w) \/ Network(w)

Spec == Init /\ [][Next]_vars

\* threads are scheduled fairly; nothing obliges the remote site to answer
FairSpec == Spec /\ \A w \in Workers : WF_vars(Local(w))

(***************************************************************************)
(* What the claims speak about                                             *)
(***************************************************************************)
Done(w) == pc[w] = "done"
AllDone == \A w \in Workers : Done(w)
Failed(w) == exc[w] # "none"

\* the positions of the records worker w has put on the queue
Published(w) == {i \in 1..Len(result_queue) : result_queue[i].by = w}
Count(w) == Cardinality(Published(w))
RecordOf(w) == result_queue[CHOOSE i \in Published(w) : TRUE].rec

FailureLogged(w) == InSeq("get_details failed", log[w])

Fetched(w) == root[w] # NoRoot

MetaContent(d, property) == FindMeta(MetaOf(Document(d)), property)

\* the url u or the document d lacks something a stage of load_details needs
InputFailsOn(u, d) ==
    \/ ~HasMarker(u)
    \/ Document(d).ld.kind # "book"
    \/ \E property \in {"books:isbn", "og:image", "og:title",
                        "books:rating:normalized_value"} :
          MetaContent(d, property).st = "raised"
    \/ FormatDate(Document(d).ld.info.datePublished).st = "raised"
    \/ ~ParseFloat(MetaContent(d, "books:rating:normalized_value").val).ok
    \/ (Document(d).genres # <<>> /\ Links(Document(d).genres[1]) = <<>>)

FailingInputs == {in \in AllUrls \X DocumentNames : InputFailsOn(in[1], in[2])}

InputFails(w) == <<url[w], root[w]>> \in FailingInputs

(***************************************************************************)
(* C1                                                                      *)
(***************************************************************************)
\* C1: one run() either passes every stage and puts exactly one fully
\* assembled record, or fails at some stage and puts none, logs the failure
\* and lets no exception out of run(); never more than one record is put.
C1_AllOrNothing ==
    \A w \in Workers :
        /\ Count(w) <= 1
        /\ outcome[w] # "raised"
        /\ Done(w) =>
              \/ /\ ~Failed(w)
                 /\ Count(w) = 1
                 /\ RecordOf(w).assigned = AllFields
                 /\ Fetched(w) /\ ~InputFails(w)
              \/ /\ Failed(w)
                 /\ Count(w) = 0
                 /\ FailureLogged(w)
                 /\ Fetched(w) => InputFails(w)

C1_Witness ==
    \E v, w \in Workers :
        /\ Done(v) /\ Count(v) = 1
        /\ Done(w) /\ Count(w) = 0 /\ root[w] = "no_book_block"

(***************************************************************************)
(* C2                                                                      *)
(***************************************************************************)
\* C2: in an invocation where some stage fails (tag parsing included) no
\* cache notification and no cleanup call is made.
C2_NoSideEffectOnFailure ==
    \A w \in Workers : Failed(w) => calls[w] = <<>>

(***************************************************************************)
(* C3                                                                      *)
(***************************************************************************)
Succeeded == {w \in Workers : Done(w) /\ ~Failed(w)}

\* C3: with the workers running concurrently, each finished worker has its
\* one record on the queue exactly if it succeeded, whatever its siblings
\* did; once all have finished the queue holds exactly one record per
\* successful worker, and each cache entry is a value some worker wrote.
C3_OneRecordPerSuccess ==
    /\ \A w \in Workers :
          Done(w) => Count(w) = (IF Failed(w) THEN 0 ELSE 1)
    /\ \A w \in Workers :
          Count(w) = 1 => RecordOf(w).identifier = RidibooksId(url[w]).val
    /\ AllDone => Len(result_queue) = Cardinality(Succeeded)
    /\ \A k \in DOMAIN isbn_cache :
          \E w \in Workers :
              /\ InSeq("cache_isbn_to_identifier", calls[w])
              /\ loc[w].isbn = k
              /\ loc[w].ridibooks_id = isbn_cache[k]
    /\ \A k \in DOMAIN cover_cache :
          \E w \in Workers :
              /\ InSeq("cache_identifier_to_cover_url", calls[w])
              /\ loc[w].ridibooks_id = k
              /\ loc[w].cover_url = cover_cache[k]

C3_Witness ==
    /\ AllDone
    /\ Succeeded # {}
    /\ Succeeded # Workers
    /\ \E i \in 1..Len(result_queue) : result_queue[i].by # i
    /\ DOMAIN isbn_cache # {}

(***************************************************************************)
(* C4                                                                      *)
(***************************************************************************)
\* C4: every started operation eventually terminates, even when the remote
\* site never answers.
C4_EveryOperationTerminates ==
    \A w \in Workers : <>Done(w)

(***************************************************************************)
(* C7                                                                      *)
(***************************************************************************)
\* the content of the rating meta tag of each document that has one
RatingTexts ==
    [d \in {n \in DocumentNames :
               MetaContent(n, "books:rating:normalized_value").st = "returned"} |->
        MetaContent(d, "books:rating:normalized_value").val]

RatingText(w) == RatingTexts[root[w]]

NonEmpty(d, property) == MetaContent(d, property).val # <<>>
HasId(u) == RidibooksId(u).val # <<>>

ExpectedCallsOn(u, d) ==
    (IF HasId(u) /\ NonEmpty(d, "books:isbn")
     THEN <<"cache_isbn_to_identifier">> ELSE <<>>)
    \o (IF HasId(u) /\ NonEmpty(d, "og:image")
        THEN <<"cache_identifier_to_cover_url">> ELSE <<>>)
    \o <<"clean_downloaded_metadata", "result_queue.put">>

Expected ==
    [in \in (AllUrls \X DocumentNames) \ FailingInputs |->
        ExpectedCallsOn(in[1], in[2])]

ExpectedCalls(w) == Expected[<<url[w], root[w]>>]

\* C9: in an invocation that publishes, the ISBN cache call (made iff ID and
\* ISBN are non-empty) precedes the cover cache call (made iff ID and cover
\* URL are non-empty), which precedes the one cleanup call, which precedes
\* the one put; every field is assigned when cleanup is called, the put is
\* the last step and the record is not changed after it.
C9_SideEffectOrder ==
    \A w \in Workers :
        /\ Count(w) = 1 =>
              /\ calls[w] = ExpectedCalls(w)
              /\ Done(w)
              /\ RecordOf(w) = mi[w]
        /\ InSeq("clean_downloaded_metadata", calls[w]) =>
              /\ mi[w].assigned = AllFields
              /\ mi[w].cleaned

C9_Witness ==
    \E v, w \in Workers :
        /\ Count(v) = 1 /\ Len(calls[v]) = 3
        /\ Count(w) = 1 /\ Len(calls[w]) = 2 /\ loc[w].cover_url # <<>>

(***************************************************************************)
(* Helper specifications: the input of one helper is drawn from a bounded  *)
(* set and the helper is applied to it once.                               *)
(***************************************************************************)
IdlePipeline ==
    /\ url = <<>> /\ root = <<>> /\ pc = <<>> /\ loc = <<>> /\ mi = <<>>
    /\ calls = <<>> /\ log = <<>> /\ exc = <<>> /\ outcome = <<>>
    /\ result_queue = <<>> /\ isbn_cache = <<>> /\ cover_cache = <<>>

UrlTokens == {"h", "/books/", "9", "?", "_", "s"}

InitUrl ==
    /\ IdlePipeline
    /\ arg \in SeqsUpTo(UrlTokens, MaxUrlLen)
    /\ prefs = <<>>
    /\ ret = Pending

DeriveId ==
    /\ ret.st = "pending"
    /\ ret' = RidibooksId(arg)
    /\ UNCHANGED <<pipelineVars, arg, prefs>>

SpecUrl == InitUrl /\ [][DeriveId]_vars

YearTexts == {<<"2", "0", "2", "0">>, <<"2", "0", "2", "1">>, <<"0", "0", "0", "0">>}
RestChars == {"0", "1", "2", "3", "9", " ", "x"}

InitDate ==
    /\ IdlePipeline
    /\ arg \in {y \o r : y \in YearTexts, r \in SeqsUpTo(RestChars, MaxRestLen)}
    /\ prefs = <<>>
    /\ ret = Pending

ParseDate ==
    /\ ret.st = "pending"
    /\ ret' = FormatDate(arg)
    /\ UNCHANGED <<pipelineVars, arg, prefs>>

SpecDate == InitDate /\ [][ParseDate]_vars

TitleChars == {"a", " ", "1", "2", Gwon, Hwa}

InitSeries ==
    /\ IdlePipeline
    /\ arg \in SeqsUpTo(TitleChars, MaxTitleLen)
    /\ prefs = <<>>
    /\ ret = Pending

DetectSeries ==
    /\ ret.st = "pending"
    /\ ret' = Returned(SeriesOf(arg))
    /\ UNCHANGED <<pipelineVars, arg, prefs>>

SpecSeries == InitSeries /\ [][DetectSeries]_vars

RawTags == {"Fantasy", "fantasy", "SciFi"}
PrefKeys == {"fantasy", "SciFi"}
CanonicalTags == {"Fantasy & SF", "fantasy"}

\* every genre mapping the preferences can hold over PrefKeys
GenreMappings ==
    UNION {[D -> SeqsUpTo(CanonicalTags, MaxMapped)] : D \in SUBSET PrefKeys}

InitGenres ==
    /\ IdlePipeline
    /\ arg \in SeqsUpTo(RawTags, MaxTags)
    /\ prefs \in GenreMappings
    /\ ret = Pending

ConvertGenres ==
    /\ ret.st = "pending"
    /\ ret' = Returned(ConvertGenresToCalibreTags(arg, prefs))
    /\ UNCHANGED <<pipelineVars, arg, prefs>>

SpecGenres == InitGenres /\ [][ConvertGenres]_vars

(***************************************************************************)
(* C8                                                                      *)
(***************************************************************************)
\* the token after the path marker, cut at the query-string delimiter "?"
IdUpToQuery(u) == Split(Split(u, BooksMarker)[2], <<"?">>)[1]

\* C8: for every URL containing "/books/" the source ID is the token between
\* the marker and the next query-string delimiter, so it holds no part of the
\* query string; for every URL without the marker the derivation fails.
C8_IdExcludesQuery ==
    ret.st # "pending" =>
        IF HasMarker(arg)
        THEN /\ ret.st = "returned"
             /\ ret.val = IdUpToQuery(arg)
             /\ ~InSeq("?", ret.val)
        ELSE ret.st = "raised"

(***************************************************************************)
(* C10                                                                     *)
(***************************************************************************)
YearOf(s) == DecimalVal(SubSeq(s, 1, 4))
MonthOf(s) == DecimalVal(SubSeq(s, 5, 6))
DayOf(s) == DecimalVal(SubSeq(s, 7, 8))

IsValid8(s) ==
    /\ Len(s) = 8
    /\ AllDigits(s)
    /\ ValidDate(YearOf(s), MonthOf(s), DayOf(s))

MustFail(s) ==
    \/ Len(s) # 8
    \/ ~AllDigits(s)
    \/ MonthOf(s) < 1 \/ MonthOf(s) > 12
    \/ DayOf(s) < 1 \/ DayOf(s) > DaysInMonth(YearOf(s), MonthOf(s))

\* C10: every valid 8-digit YYYYMMDD text parses to the date with that year,
\* month and day at UTC; every text whose length is not 8, or that holds a
\* non-digit, or whose month or day is out of range, makes the parse fail.
C10_CompactDate ==
    ret.st # "pending" =>
        /\ IsValid8(arg) =>
              ret = Returned([year |-> YearOf(arg), month |-> MonthOf(arg),
                              day |-> DayOf(arg), tz |-> "utc"])
        /\ MustFail(arg) => ret.st = "raised"

(***************************************************************************)
(* C5                                                                      *)
(***************************************************************************)
EndMarker(title) ==
    IF EndsWith(title, Gwon) THEN Gwon
    ELSE IF EndsWith(title, Hwa) THEN Hwa
    ELSE "none"

\* 1-based index of the first digit of the integer that precedes the last
\* character of the title (Len(title) when no digit precedes it)
IntStart(title) ==
    CHOOSE d \in 1..Len(title) :
        /\ \A n \in d..(Len(title) - 1) : IsDigit(title[n])
        /\ (d > 1 => ~IsDigit(title[d - 1]))

EndsWithNumberedMarker(title) ==
    /\ EndMarker(title) # "none"
    /\ IntStart(title) < Len(title)

\* C5: a title ending with the volume marker (or else the episode marker)
\* preceded by an integer gives the trimmed prefix before the integer as the
\* series name and the whole integer as the index; a title ending with
\* neither marker gives no series.
C5_SeriesFromTitle ==
    ret.st # "pending" =>
        /\ EndsWithNumberedMarker(arg) =>
              ret.val = [matched |-> TRUE,
                         series |-> Strip(SubSeq(arg, 1, IntStart(arg) - 1)),
                         series_index |->
                             DecimalVal(SubSeq(arg, IntStart(arg), Len(arg) - 1))]
        /\ EndMarker(arg) = "none" => ret.val = NoSeries

(***************************************************************************)
(* C6                                                                      *)
(***************************************************************************)
\* the mapping rule as stated: a key that is present contributes only the
\* members of its mapped sequence
RECURSIVE MapAsStated(_, _, _)
MapAsStated(out, genre_tags, tag_map) ==
    IF genre_tags = <<>> THEN out
    ELSE LET key == Lower(genre_tags[1]) IN
         MapAsStated(
             IF key \in DOMAIN tag_map
             THEN AppendNew(out, tag_map[key])
             ELSE AppendNew(out, <<genre_tags[1]>>),
             Tail(genre_tags), tag_map)

NoDuplicates(s) == \A i, j \in 1..Len(s) : s[i] = s[j] => i = j

\* C6: processing raw tags in order, a tag whose lowercased form is a key of
\* the mapping contributes exactly the not-yet-present members of its mapped
\* sequence (never the raw tag itself), any other tag contributes itself if
\* not yet present; the output has no duplicates.
C6_GenreMapping ==
    ret.st # "pending" =>
        /\ ret.val = MapAsStated(<<>>, arg, CalibreTagMap(prefs))
        /\ NoDuplicates(ret.val)

====
